---------------------------- MODULE Spec2Model ----------------------------
(***************************************************************************)
(* Reminder scheduling engine of the expense bot                           *)
(* (scripts/reminder_scheduler.py): the time resolver, the change cache    *)
(* reminder_cache, the APScheduler job table, the delivery path            *)
(* send_reminder and the rescan loop of start_reminder_scheduler.          *)
(*                                                                         *)
(* Instants are UTC, counted in ticks of 1/TicksPerSecond second from the  *)
(* midnight of day 0.  A timezone specifier is the sequence of its         *)
(* characters; a wall time is the pair <<hour, minute>>.                   *)
(***************************************************************************)
EXTENDS Integers, Sequences, FiniteSets, Bags, TLC

(***************************************************************************)
(* Bounds of the model.                                                    *)
(***************************************************************************)
TicksPerSecond == 2      \* clock resolution (the code's is the microsecond)
NumUsers == 2            \* rows of the users table
MaxDay == 2              \* the clock runs over days 1 .. MaxDay
MaxChanges == 2          \* writes to the settings store after start-up
MaxGoneFires == 2        \* saturation of the goneFires counter

(***************************************************************************)
(* Durations, in ticks.                                                    *)
(***************************************************************************)
Second == TicksPerSecond
Minute == 60 * Second
Hour == 60 * Minute
Day == 24 * Hour
ToleranceSeconds == 300
RescanSeconds == 3600
BackoffSeconds == 60

Users == 1 .. NumUsers

(***************************************************************************)
(* Timezone specifiers.                                                    *)
(***************************************************************************)
TZ_IST == <<"+", "0", "5", ":", "3", "0">>
TZ_EDT == <<"-", "0", "4", ":", "0", "0">>
TZ_GB == <<"G", "B">>
TZ_UTC == <<"U", "T", "C">>
TZ_NoSign == <<"5", ":", "3", "0">>
TZ_OneDigit == <<"+", "5", ":", "3", "0">>

Digits == {"0", "1", "2", "3", "4", "5", "6", "7", "8", "9"}

DigitVal(c) ==
    CASE c = "0" -> 0 [] c = "1" -> 1 [] c = "2" -> 2 [] c = "3" -> 3
      [] c = "4" -> 4 [] c = "5" -> 5 [] c = "6" -> 6 [] c = "7" -> 7
      [] c = "8" -> 8 [] c = "9" -> 9

DigitChar(k) == CHOOSE c \in Digits : DigitVal(c) = k

\* The pattern without its end anchor: anything may follow the minutes.
OffsetMatchesPrefix(s) ==
    /\ Len(s) >= 6
    /\ s[1] \in {"+", "-"}
    /\ s[2] \in Digits /\ s[3] \in Digits
    /\ s[4] = ":"
    /\ s[5] \in Digits /\ s[6] \in Digits

\* re.match(r'^([+-])(\d{2}):(\d{2})$', offset_str)
OffsetMatches(s) ==
    /\ Len(s) = 6
    /\ s[1] \in {"+", "-"}
    /\ s[2] \in Digits /\ s[3] \in Digits
    /\ s[4] = ":"
    /\ s[5] \in Digits /\ s[6] \in Digits

\* parse_utc_offset that drops the sign.
parse_utc_offset_unsigned(s) ==
    LET hours == 10 * DigitVal(s[2]) + DigitVal(s[3])
        minutes == 10 * DigitVal(s[5]) + DigitVal(s[6])
    IN  hours * 60 + minutes

\* parse_utc_offset: signed minutes; defined where OffsetMatches holds,
\* a ValueError otherwise.
parse_utc_offset(s) ==
    LET hours == 10 * DigitVal(s[2]) + DigitVal(s[3])
        minutes == 10 * DigitVal(s[5]) + DigitVal(s[6])
        total_minutes == hours * 60 + minutes
    IN  IF s[1] = "-" THEN 0 - total_minutes ELSE total_minutes

\* The names pytz.timezone() knows, of those the model uses.
NamedZones == {TZ_GB, TZ_UTC}

\* GB moves from GMT to BST at 01:00 UTC of the transition day.
DstStart == 2 * Day + Hour

\* utcoffset, in minutes, of the named zone at the UTC instant t.
NamedOffset(z, t) ==
    IF z = TZ_GB THEN (IF t >= DstStart THEN 60 ELSE 0) ELSE 0

\* pytz.FixedOffset(offset_minutes) (line 136) raises ValueError for an
\* offset of a whole day or more.
FixedOffsetOk(offset_minutes) ==
    offset_minutes > 0 - 24 * 60 /\ offset_minutes < 24 * 60

\* Lines 130-138: the specifier yields a tzinfo, or the pass raises.
TzValid(z) ==
    \/ z \in NamedZones
    \/ /\ Len(z) >= 1
       /\ z[1] \in {"+", "-"}
       /\ OffsetMatches(z)
       /\ FixedOffsetOk(parse_utc_offset(z))

\* Offset, in minutes, of the tzinfo that datetime.now(tz) carries at t.
UtcOffset(z, t) ==
    IF z \in NamedZones THEN NamedOffset(z, t) ELSE parse_utc_offset(z)

\* Resolve without the roll to the next day.
ResolveNoRoll(t, rt, z) ==
    LET off == UtcOffset(z, t) * Minute
        now_local == t + off
        midnight == (now_local \div Day) * Day
    IN  midnight + rt[1] * Hour + rt[2] * Minute - off

\* Resolve rolling to the next day also when the candidate equals 'now'.
ResolveRollOnEqual(t, rt, z) ==
    LET off == UtcOffset(z, t) * Minute
        now_local == t + off
        midnight == (now_local \div Day) * Day
        candidate == midnight + rt[1] * Hour + rt[2] * Minute
        next_reminder_local ==
            IF candidate <= now_local THEN candidate + Day ELSE candidate
    IN  next_reminder_local - off

\* Lines 141-147.  now_local keeps the offset in force at t; replace() and
\* the timedelta addition keep that same tzinfo, and astimezone(utc)
\* subtracts it again.
Resolve(t, rt, z) ==
    LET off == UtcOffset(z, t) * Minute
        now_local == t + off
        midnight == (now_local \div Day) * Day
        candidate == midnight + rt[1] * Hour + rt[2] * Minute
        next_reminder_local ==
            IF candidate < now_local THEN candidate + Day ELSE candidate
    IN  next_reminder_local - off

Abs(x) == IF x < 0 THEN 0 - x ELSE x

\* ShouldSchedule that ignores the cache.
ShouldScheduleAlways(cache, u, rt, z, next_utc) == TRUE

\* ShouldSchedule with the tolerance test as 'at least 300 s'.
ShouldScheduleAtLeast(cache, u, rt, z, next_utc) ==
    IF u \notin DOMAIN cache
    THEN TRUE
    ELSE IF rt # cache[u][1] \/ z # cache[u][2]
         THEN TRUE
         ELSE Abs(next_utc - cache[u][3]) >= ToleranceSeconds * Second

\* ShouldSchedule without the fire-time test: an entry for the same
\* configuration always means 'skip'.
ShouldScheduleOnChange(cache, u, rt, z, next_utc) ==
    IF u \notin DOMAIN cache
    THEN TRUE
    ELSE rt # cache[u][1] \/ z # cache[u][2]

\* Lines 151-170: the entry of u, when there is one, is
\* <<cached_time, cached_timezone, cached_next_scheduled>>.
ShouldSchedule(cache, u, rt, z, next_utc) ==
    IF u \notin DOMAIN cache
    THEN TRUE
    ELSE IF rt # cache[u][1] \/ z # cache[u][2]
         THEN TRUE
         ELSE Abs(next_utc - cache[u][3]) > ToleranceSeconds * Second


(***************************************************************************)
(* The job table of the BackgroundScheduler: a bag of pending jobs.        *)
(***************************************************************************)
\* id=f"reminder_{telegram_user_id}"
JobId(u) == <<"reminder_", u>>

Job(u, t) == [id |-> JobId(u), run_date |-> t]

JobsOf(js, u) == {j \in DOMAIN js : j.id = JobId(u)}

\* Number of pending jobs stored under the id of user u.
PendingCount(js, u) ==
    BagCardinality([j \in JobsOf(js, u) |-> js[j]])

RemoveId(js, u) == [j \in (DOMAIN js) \ JobsOf(js, u) |-> js[j]]

\* add_job that cancels the job stored under the id and stores none.
add_job_cancel_only(js, u, t) == RemoveId(js, u)

\* add_job that leaves a job already stored under the id in place.
add_job_keep_existing(js, u, t) == js (+) SetToBag({Job(u, t)})

\* scheduler.add_job(send_reminder, 'date', run_date=..., id=...,
\*                   replace_existing=True)
add_job(js, u, t) == RemoveId(js, u) (+) SetToBag({Job(u, t)})

\* The date trigger has no next fire time: the fired job leaves the table.
remove_fired(js, j) == js (-) SetToBag({j})

\* A send_reminder that books the next day's job itself.
send_reminder_rebook(js, u) == js (+) SetToBag({Job(u, 3 * Day)})

\* Lines 69-100: send_reminder sends one message (or logs the failure) and
\* makes no call on the scheduler; js is the job table it leaves.
send_reminder(js, u) == js

(***************************************************************************)
(* The change cache: a function from the cached user ids to                *)
(* <<reminder_time, reminder_timezone, next_scheduled_time>>.              *)
(***************************************************************************)
\* A clean-up that empties the cache.
cleanup_cache_clear(cache, u) == << >>

\* cleanup_cache_for_user
cleanup_cache_for_user(cache, u) ==
    IF u \in DOMAIN cache
    THEN [k \in (DOMAIN cache) \ {u} |-> cache[k]]
    ELSE cache

\* The clean-up loop with its test inverted: the users of the snapshot go.
EvictPresent(cache, current_user_ids) ==
    [k \in (DOMAIN cache) \ current_user_ids |-> cache[k]]

\* Lines 114-119: every cached user missing from the snapshot is evicted.
EvictAbsent(cache, current_user_ids) ==
    [k \in (DOMAIN cache) \cap current_user_ids |-> cache[k]]

\* reminder_cache[cache_key] = (reminder_time, reminder_timezone, next_utc)
\* A cache write that stores the occurrence of the day after.
CachePutShifted(cache, u, entry) ==
    [k \in (DOMAIN cache) \cup {u} |->
        IF k = u THEN <<entry[1], entry[2], entry[3] + Day>> ELSE cache[k]]

CachePut(cache, u, entry) ==
    [k \in (DOMAIN cache) \cup {u} |-> IF k = u THEN entry ELSE cache[k]]

(***************************************************************************)
(* Inputs.                                                                 *)
(***************************************************************************)
Cfg(rt, z) == [time |-> rt, tz |-> z]

\* The rows the settings store may hold.
Configs ==
    { Cfg(<<21, 0>>, TZ_IST), Cfg(<<9, 0>>, TZ_IST), Cfg(<<21, 0>>, TZ_GB),
      Cfg(<<21, 0>>, TZ_NoSign) }

\* The instants at which the model reads the clock: 20:00, 21:00 and just
\* after 21:00 at +05:30 (21:00 is 15:30 UTC), on each day.
DayMarks ==
    { 14 * Hour + 30 * Minute,
      15 * Hour + 30 * Minute,
      15 * Hour + 30 * Minute + 1 }

Clock == {d * Day + m : d \in 1 .. MaxDay, m \in DayMarks}

\* The clock stays below the end of day MaxDay.
Horizon == (MaxDay + 1) * Day

\* A send_reminder call: where it stands, the event loop it created (0:
\* none), the send_message calls it has made, what came of the delivery and
\* whether an exception has left the call.
NoDelivery ==
    [pc |-> "idle", loop |-> 0, attempts |-> 0, result |-> "none",
     raised |-> FALSE]

\* No test_encryption is running.
NoCrypto == [pc |-> "off"]

VARIABLES
    now,                \* the wall clock, a UTC instant
    settings,           \* users table: the users with a reminder -> config
    changes,            \* store writes and outside evictions so far
    reminder_cache,     \* the module-level cache
    jobs,               \* the scheduler's job table
    goneFires,          \* firings for a user since the config vanished
    last_pass,          \* <<snapshot, cache>> left by the pass before, if it
                        \* returned and nobody evicted since; else << >>
    pc,                 \* position of the rescan worker
    initial,            \* TRUE until the start-up pass has returned
    wake_at,            \* end of the worker's current sleep
    users,              \* snapshot of the pass in progress
    idx,                \* index in users of the tuple being processed
    now_local,          \* the 'now' read for that tuple (as a UTC instant)
    next_reminder_utc,  \* the occurrence resolved for that tuple
    scheduled_users,    \* users scheduled by the pass in progress
    skipped_users,      \* users skipped by the pass in progress
    deliv,              \* per user, the send_reminder call in progress
    loops,              \* event loops created so far
    crypto              \* the locals of test_encryption

storeVars == <<settings, changes>>
engineVars == <<reminder_cache, jobs, goneFires, last_pass>>
loopVars == <<pc, initial, wake_at>>
passVars == <<users, idx, now_local, next_reminder_utc, scheduled_users,
              skipped_users>>

sendVars == <<deliv, loops>>

cryptoVars == <<crypto>>

vars ==
    <<now, storeVars, engineVars, loopVars, passVars, sendVars, cryptoVars>>

\* fetch_reminder_users: the rows with both columns non-null, in the order
\* the database returns them.
Rows(st) == {<<u, st[u].time, st[u].tz>> : u \in DOMAIN st}

Snapshots(st) ==
    LET rows == Rows(st)
        n == Cardinality(rows)
    IN  {s \in [1 .. n -> rows] : \A i, k \in 1 .. n : i # k => s[i] # s[k]}

UserIds(snapshot) == {snapshot[i][1] : i \in 1 .. Len(snapshot)}

Init ==
    /\ now \in Clock
    /\ \E S \in SUBSET Users : settings \in [S -> Configs]
    /\ changes = 0
    /\ reminder_cache = << >>
    /\ jobs = EmptyBag
    /\ goneFires = [u \in Users |-> 0]
    /\ last_pass = << >>
    /\ pc = "start"
    /\ initial = TRUE
    /\ wake_at = 0
    /\ users = << >>
    /\ idx = 0
    /\ now_local = 0
    /\ next_reminder_utc = 0
    /\ scheduled_users = << >>
    /\ skipped_users = << >>
    /\ deliv = [u \in Users |-> NoDelivery]
    /\ loops = 0
    /\ crypto = NoCrypto

(***************************************************************************)
(* The environment: the clock, the settings store and outside callers.     *)
(***************************************************************************)
\* The run dates of the pending jobs.
RunDates(js) == {j.run_date : j \in DOMAIN js}

\* The scheduler wakes at the run date of its next job: time passes only
\* when no pending job is due, and does not pass over a run date.
Tick ==
    /\ \A d \in RunDates(jobs) : d > now
    /\ \E t \in Clock \cup {d \in RunDates(jobs) : d < Horizon} :
          /\ t > now
          /\ \A d \in RunDates(jobs) : t <= d
          /\ now' = t
    /\ UNCHANGED <<storeVars, engineVars, loopVars, passVars>>
    /\ UNCHANGED <<sendVars, cryptoVars>>

StorePut(st, u, c) ==
    [k \in (DOMAIN st) \cup {u} |-> IF k = u THEN c ELSE st[k]]

StoreDelete(st, u) == [k \in (DOMAIN st) \ {u} |-> st[k]]

\* A row of the users table gets a reminder time and timezone.
StoreSet ==
    /\ changes < MaxChanges
    /\ \E u \in Users, c \in Configs :
          /\ (u \in DOMAIN settings => settings[u] # c)
          /\ settings' = StorePut(settings, u, c)
          /\ goneFires' = [goneFires EXCEPT ![u] = 0]
    /\ changes' = changes + 1
    /\ UNCHANGED <<now, reminder_cache, jobs, last_pass, loopVars, passVars>>
    /\ UNCHANGED <<sendVars, cryptoVars>>

\* A row loses its reminder (the columns become NULL or the row is deleted).
StoreClear ==
    /\ changes < MaxChanges
    /\ \E u \in DOMAIN settings : settings' = StoreDelete(settings, u)
    /\ changes' = changes + 1
    /\ UNCHANGED <<now, engineVars, loopVars, passVars>>
    /\ UNCHANGED <<sendVars, cryptoVars>>

\* cleanup_cache_for_user called from outside the rescan loop.
Cleanup ==
    /\ changes < MaxChanges
    /\ \E u \in Users :
          reminder_cache' = cleanup_cache_for_user(reminder_cache, u)
    /\ changes' = changes + 1
    /\ last_pass' = << >>
    /\ UNCHANGED <<now, settings, jobs, goneFires, loopVars, passVars>>
    /\ UNCHANGED <<sendVars, cryptoVars>>

(***************************************************************************)
(* The rescan worker: start_reminder_scheduler and schedule_all_reminders.  *)
(***************************************************************************)
\* An exception leaves schedule_all_reminders: the start-up pass lets it
\* reach the outer handler, which re-raises and ends the thread; a periodic
\* pass logs it and sleeps 60 s before the loop goes round.
Raise ==
    /\ pc' = IF initial THEN "dead" ELSE "backoff"
    /\ wake_at' = IF initial THEN wake_at ELSE now + BackoffSeconds * Second
    /\ users' = << >>
    /\ idx' = 0
    /\ now_local' = 0
    /\ next_reminder_utc' = 0
    /\ scheduled_users' = << >>
    /\ skipped_users' = << >>
    /\ UNCHANGED initial

\* Move on to the tuple after users[idx], or to the summary of the pass;
\* the locals of the iteration are dead.
Advance ==
    /\ idx' = IF idx < Len(users) THEN idx + 1 ELSE 0
    /\ pc' = IF idx < Len(users) THEN "resolve" ELSE "summary"
    /\ now_local' = 0
    /\ next_reminder_utc' = 0
    /\ UNCHANGED <<initial, wake_at, users>>

PassDue ==
    \/ pc = "start"
    \/ pc = "sleep" /\ now >= wake_at

\* Lines 108-124: the snapshot is read and the cache is cleaned up.
BeginPass ==
    /\ PassDue
    /\ \E snapshot \in Snapshots(settings) :
          /\ users' = snapshot
          /\ reminder_cache' = EvictAbsent(reminder_cache, UserIds(snapshot))
          /\ idx' = IF Len(snapshot) = 0 THEN 0 ELSE 1
          /\ pc' = IF Len(snapshot) = 0 THEN "summary" ELSE "resolve"
    /\ scheduled_users' = << >>
    /\ skipped_users' = << >>
    /\ UNCHANGED <<now, storeVars, jobs, goneFires, last_pass, initial,
                   wake_at, now_local, next_reminder_utc>>
    /\ UNCHANGED <<sendVars, cryptoVars>>

\* A failed read taken for an empty snapshot: the clean-up loop runs
\* before the exception leaves.
FetchFailsEvicting ==
    /\ PassDue
    /\ reminder_cache' = EvictAbsent(reminder_cache, {})
    /\ Raise
    /\ last_pass' = << >>
    /\ UNCHANGED <<now, storeVars, jobs, goneFires>>
    /\ UNCHANGED <<sendVars, cryptoVars>>

\* fetch_reminder_users raises (the database is unreachable).
FetchFails ==
    /\ PassDue
    /\ Raise
    /\ last_pass' = << >>
    /\ UNCHANGED <<now, storeVars, reminder_cache, jobs, goneFires>>
    /\ UNCHANGED <<sendVars, cryptoVars>>

\* Lines 126-170 for users[idx] with a usable timezone: the occurrence is
\* resolved and compared with the cache.
ResolveUser ==
    /\ pc = "resolve"
    /\ LET u == users[idx][1]
           rt == users[idx][2]
           z == users[idx][3]
           next_utc == Resolve(now, rt, z)
       IN  /\ TzValid(z)
           /\ IF ShouldSchedule(reminder_cache, u, rt, z, next_utc)
              THEN /\ pc' = "install"
                   /\ now_local' = now
                   /\ next_reminder_utc' = next_utc
                   /\ UNCHANGED <<initial, wake_at, users, idx,
                                  skipped_users>>
              ELSE /\ skipped_users' = Append(skipped_users, u)
                   /\ Advance
    /\ UNCHANGED <<now, storeVars, engineVars, scheduled_users>>
    /\ UNCHANGED <<sendVars, cryptoVars>>

\* Lines 130-138 for a specifier that is no zone name and no offset: the
\* exception leaves the pass.
BadTimezone ==
    /\ pc = "resolve"
    /\ ~TzValid(users[idx][3])
    /\ Raise
    /\ last_pass' = << >>
    /\ UNCHANGED <<now, storeVars, reminder_cache, jobs, goneFires>>
    /\ UNCHANGED <<sendVars, cryptoVars>>

\* add_job as a call that would wait for the executor to be idle.
InstallJobWhenIdle ==
    /\ pc = "install"
    /\ \A u \in Users : deliv[u].pc \in {"idle", "done"}
    /\ jobs' = add_job(jobs, users[idx][1], next_reminder_utc)
    /\ pc' = "cache"
    /\ UNCHANGED <<now, storeVars, reminder_cache, goneFires, last_pass,
                   initial, wake_at, passVars>>
    /\ UNCHANGED <<sendVars, cryptoVars>>

\* Lines 172-181.
InstallJob ==
    /\ pc = "install"
    /\ jobs' = add_job(jobs, users[idx][1], next_reminder_utc)
    /\ pc' = "cache"
    /\ UNCHANGED <<now, storeVars, reminder_cache, goneFires, last_pass,
                   initial, wake_at, passVars>>
    /\ UNCHANGED <<sendVars, cryptoVars>>

\* The cache write of line 184 moved in front of add_job, which then
\* raises.
InstallFailsAfterWrite ==
    /\ pc = "install"
    /\ reminder_cache' =
          CachePut(reminder_cache, users[idx][1],
                   <<users[idx][2], users[idx][3], next_reminder_utc>>)
    /\ Raise
    /\ last_pass' = << >>
    /\ UNCHANGED <<now, storeVars, jobs, goneFires>>
    /\ UNCHANGED <<sendVars, cryptoVars>>

\* Lines 174-181 when scheduler.add_job raises: the exception leaves the
\* pass before line 184 is reached.
InstallFails ==
    /\ pc = "install"
    /\ Raise
    /\ last_pass' = << >>
    /\ UNCHANGED <<now, storeVars, reminder_cache, jobs, goneFires>>
    /\ UNCHANGED <<sendVars, cryptoVars>>

\* Lines 183-188, then the next tuple.
UpdateCache ==
    /\ pc = "cache"
    /\ LET u == users[idx][1]
       IN  /\ reminder_cache' =
                CachePut(reminder_cache, u,
                         <<users[idx][2], users[idx][3], next_reminder_utc>>)
           /\ scheduled_users' = Append(scheduled_users, u)
    /\ Advance
    /\ UNCHANGED <<now, storeVars, jobs, goneFires, last_pass,
                   skipped_users>>
    /\ UNCHANGED <<sendVars, cryptoVars>>

\* Lines 193-200: the summary is logged and schedule_all_reminders returns;
\* the worker goes (back) to sleep(3600).
Summary ==
    /\ pc = "summary"
    /\ pc' = "sleep"
    /\ initial' = FALSE
    /\ wake_at' = now + RescanSeconds * Second
    /\ users' = << >>
    /\ scheduled_users' = << >>
    /\ skipped_users' = << >>
    /\ last_pass' = <<users, reminder_cache>>
    /\ UNCHANGED <<now, storeVars, reminder_cache, jobs, goneFires, idx,
                   now_local, next_reminder_utc>>
    /\ UNCHANGED <<sendVars, cryptoVars>>

\* Line 234 has elapsed: the loop goes round to sleep(3600).
BackoffDone ==
    /\ pc = "backoff"
    /\ now >= wake_at
    /\ pc' = "sleep"
    /\ wake_at' = now + RescanSeconds * Second
    /\ UNCHANGED <<now, storeVars, engineVars, initial, passVars>>
    /\ UNCHANGED <<sendVars, cryptoVars>>

(***************************************************************************)
(* The scheduler's own thread and its executor.                            *)
(***************************************************************************)
Bump(n) == IF n < MaxGoneFires THEN n + 1 ELSE n

UserOf(j) == j.id[2]

\* A pending job whose run date has come leaves the table and its
\* send_reminder(user) runs.
FireJob ==
    /\ \E j \in DOMAIN jobs :
          /\ j.run_date <= now
          /\ jobs' = send_reminder(remove_fired(jobs, j), UserOf(j))
          /\ goneFires' =
                IF UserOf(j) \notin DOMAIN settings
                THEN [goneFires EXCEPT ![UserOf(j)] = Bump(@)]
                ELSE goneFires
    /\ UNCHANGED <<now, storeVars, reminder_cache, last_pass, loopVars,
                   passVars>>
    /\ UNCHANGED <<sendVars, cryptoVars>>

Next ==
    \/ Tick
    \/ StoreSet
    \/ StoreClear
    \/ Cleanup
    \/ BeginPass
    \/ FetchFails
    \/ ResolveUser
    \/ BadTimezone
    \/ InstallJob
    \/ UpdateCache
    \/ Summary
    \/ BackoffDone
    \/ FireJob

Spec == Init /\ [][Next]_vars

(***************************************************************************)
(* One tuple through lines 126-191, from every combination of clock        *)
(* reading, configuration and cache entry.                                 *)
(***************************************************************************)
UnitNows ==
    { d * Day + m + e :
        d \in 1 .. MaxDay,
        m \in { 0, 3 * Hour + 30 * Minute, 14 * Hour + 30 * Minute,
                15 * Hour + 30 * Minute, 15 * Hour + 35 * Minute,
                20 * Hour, 23 * Hour + 59 * Minute },
        e \in {0, 1, Minute - 1} }

UnitTimes == {<<0, 0>>, <<9, 0>>, <<21, 0>>, <<23, 59>>}

TZ_Plus14 == <<"+", "1", "4", ":", "0", "0">>
TZ_Minus12 == <<"-", "1", "2", ":", "0", "0">>

TZ_Zero == <<"+", "0", "0", ":", "0", "0">>
TZ_Min75 == <<"+", "0", "5", ":", "7", "5">>
TZ_Minus0959 == <<"-", "0", "9", ":", "5", "9">>

UnitZones ==
    {TZ_IST, TZ_EDT, TZ_GB, TZ_UTC, TZ_Plus14, TZ_Minus12, TZ_Zero, TZ_Min75,
     TZ_Minus0959}

\* Specifiers that yield no tzinfo.
TZ_Trailing == <<"+", "0", "5", ":", "3", "0", "0">>
TZ_NoColon == <<"+", "0", "5", "3", "0">>
TZ_Unknown == <<"I", "S", "T">>
TZ_WholeDay == <<"+", "2", "4", ":", "0", "0">>

UnitBadZones ==
    {TZ_NoSign, TZ_OneDigit, TZ_Trailing, TZ_NoColon, TZ_Unknown, TZ_WholeDay}

UnitConfigs ==
    [time : UnitTimes, tz : UnitZones]
        \cup {Cfg(<<21, 0>>, z) : z \in UnitBadZones}

UnitDeltas ==
    { 0, ToleranceSeconds * Second, 0 - ToleranceSeconds * Second,
      ToleranceSeconds * Second + 1, 0 - (ToleranceSeconds * Second + 1),
      0 - Day }

\* The cache entries user 1 may hold when the tuple (1, c.time, c.tz) is
\* processed at t.
UnitCaches(t, c) ==
    IF ~TzValid(c.tz)
    THEN {<< >>}
    ELSE LET r == Resolve(t, c.time, c.tz)
         IN  {<< >>}
               \cup {1 :> <<c.time, c.tz, r + d>> : d \in UnitDeltas}
               \cup {1 :> <<<<8, 30>>, c.tz, r>>}
               \cup {1 :> <<c.time, TZ_OneDigit, r>>}

InitUnit ==
    /\ now \in UnitNows
    /\ \E c \in UnitConfigs :
          /\ settings = 1 :> c
          /\ users = << <<1, c.time, c.tz>> >>
          /\ reminder_cache \in UnitCaches(now, c)
    /\ jobs \in {EmptyBag}
                \cup {SetToBag({Job(1, reminder_cache[u][3])}) :
                         u \in DOMAIN reminder_cache}
    /\ changes = MaxChanges
    /\ goneFires = [u \in Users |-> 0]
    /\ last_pass = << >>
    /\ pc = "resolve"
    /\ initial \in BOOLEAN
    /\ wake_at = 0
    /\ idx = 1
    /\ now_local = 0
    /\ next_reminder_utc = 0
    /\ scheduled_users = << >>
    /\ skipped_users = << >>
    /\ deliv = [u \in Users |-> NoDelivery]
    /\ loops = 0
    /\ crypto = NoCrypto

NextUnit ==
    \/ ResolveUser
    \/ BadTimezone
    \/ InstallJob
    \/ UpdateCache
    \/ Summary

SpecUnit == InitUnit /\ [][NextUnit]_vars

\* The same tuple with a scheduler whose add_job may raise.  (With the
\* in-memory job store, a date trigger and replace_existing=True add_job
\* has no failure of its own; this specification adds the fault.)
NextFaulty ==
    \/ NextUnit
    \/ InstallFails

SpecFaulty == InitUnit /\ [][NextFaulty]_vars

(***************************************************************************)
(* send_reminder step by step, as the executor's worker threads run it.    *)
(* A worker thread runs no event loop, so get_running_loop() raises        *)
(* RuntimeError there and lines 88-91 are the branch taken.                *)
(***************************************************************************)
\* The line of the except clause that catches an Exception raised at each
\* call site of send_reminder; 0 would mean that it leaves the function.
HandlerOf(site) ==
    CASE site = "send_message" -> 74
      [] site = "new_event_loop" -> 92
      [] site = "run_until_complete" -> 92
      [] site = "close" -> 99
      [] OTHER -> 0

\* An event loop that is one and the same for every call.
shared_event_loop(n) == 1

\* asyncio.new_event_loop(): a loop no other call holds.
new_event_loop(n) == n + 1

\* Lines 82-90: the call gets its event loop, or the set-up raises and
\* line 92 catches it.
enter_loop(d, n, ok) ==
    IF ok
    THEN [d EXCEPT !.pc = "send", !.loop = new_event_loop(n)]
    ELSE [d EXCEPT !.pc = "finally", !.result = "loop_error",
                   !.raised = @ \/ HandlerOf("new_event_loop") = 0]

\* send() that goes back to send_message after a failure.
send_retry(d, ok) ==
    [d EXCEPT !.pc = IF ok THEN "finally" ELSE "send",
              !.attempts = @ + 1,
              !.result = IF ok THEN "sent" ELSE "failed"]

\* Lines 70-76 under run_until_complete (line 91): one send_message, whose
\* exception, if any, is caught and logged at line 74.
send(d, ok) ==
    [d EXCEPT !.pc = "finally",
              !.attempts = @ + 1,
              !.result = IF ok THEN "sent" ELSE "failed",
              !.raised = @ \/ (~ok /\ HandlerOf("send_message") = 0)]

\* Lines 94-100: the loop the call created is closed; line 99 catches what
\* close() raises.
close_loop(d, ok) ==
    [d EXCEPT !.pc = "done",
              !.raised = @ \/ (~ok /\ HandlerOf("close") = 0)]

\* The executor takes a due job: it leaves the table (date trigger) and
\* send_reminder starts on a worker thread; a job whose previous instance
\* is still running is not started (max_instances is 1).
Submit ==
    /\ \E j \in DOMAIN jobs :
          /\ j.run_date <= now
          /\ deliv[UserOf(j)].pc \in {"idle", "done"}
          /\ jobs' = remove_fired(jobs, j)
          /\ deliv' = [deliv EXCEPT ![UserOf(j)] =
                                      [NoDelivery EXCEPT !.pc = "start"]]
          /\ goneFires' =
                IF UserOf(j) \notin DOMAIN settings
                THEN [goneFires EXCEPT ![UserOf(j)] = Bump(@)]
                ELSE goneFires
    /\ UNCHANGED <<now, storeVars, reminder_cache, last_pass, loopVars,
                   passVars, loops,
                   cryptoVars>>

EnterLoop(u) ==
    /\ deliv[u].pc = "start"
    /\ \E ok \in BOOLEAN :
          /\ deliv' = [deliv EXCEPT ![u] = enter_loop(@, loops, ok)]
          /\ loops' = IF ok THEN new_event_loop(loops) ELSE loops
    /\ UNCHANGED <<now, storeVars, engineVars, loopVars, passVars,
                   cryptoVars>>

SendMessage(u, ok) ==
    /\ deliv[u].pc = "send"
    /\ deliv' = [deliv EXCEPT ![u] = send(@, ok)]
    /\ UNCHANGED <<now, storeVars, engineVars, loopVars, passVars, loops,
                   cryptoVars>>

CloseLoop(u) ==
    /\ deliv[u].pc = "finally"
    /\ \E ok \in BOOLEAN : deliv' = [deliv EXCEPT ![u] = close_loop(@, ok)]
    /\ UNCHANGED <<now, storeVars, engineVars, loopVars, passVars, loops,
                   cryptoVars>>

Deliver ==
    \E u \in Users :
        \/ EnterLoop(u)
        \/ \E ok \in BOOLEAN : SendMessage(u, ok)
        \/ CloseLoop(u)

\* 21:00 at +05:30 of day 1 has come: every user's job is due, each cache
\* entry holds that fire time, and the worker's sleep is over.
SendDue == Day + 15 * Hour + 30 * Minute

InitSend ==
    /\ now \in {SendDue, SendDue + 1}
    /\ settings = [u \in Users |-> Cfg(<<21, 0>>, TZ_IST)]
    /\ changes = 0
    /\ reminder_cache = [u \in Users |-> <<<<21, 0>>, TZ_IST, SendDue>>]
    /\ jobs = SetToBag({Job(u, SendDue) : u \in Users})
    /\ goneFires = [u \in Users |-> 0]
    /\ last_pass = << >>
    /\ pc = "sleep"
    /\ initial = FALSE
    /\ wake_at = SendDue
    /\ users = << >>
    /\ idx = 0
    /\ now_local = 0
    /\ next_reminder_utc = 0
    /\ scheduled_users = << >>
    /\ skipped_users = << >>
    /\ deliv = [u \in Users |-> NoDelivery]
    /\ loops = 0
    /\ crypto = NoCrypto

NextSend ==
    \/ Submit
    \/ Deliver
    \/ Cleanup
    \/ BeginPass
    \/ ResolveUser
    \/ InstallJob
    \/ UpdateCache
    \/ Summary

SpecSend == InitSend /\ [][NextSend]_vars

(***************************************************************************)
(* One call of schedule_all_reminders as a function of what it reads: the  *)
(* snapshot in the order the database returned it, the cache, the job      *)
(* table and the clock (taken as one reading for the whole pass).  The     *)
(* result is the cache and the job table the call leaves behind and        *)
(* whether it left by an exception.                                        *)
(***************************************************************************)
RECURSIVE process_users(_, _, _, _, _)
process_users(snapshot, i, cache, js, t) ==
    IF i > Len(snapshot)
    THEN [cache |-> cache, jobs |-> js, raised |-> FALSE]
    ELSE LET u == snapshot[i][1]
             rt == snapshot[i][2]
             z == snapshot[i][3]
             next_utc == Resolve(t, rt, z)
         IN  IF ~TzValid(z)
             THEN [cache |-> cache, jobs |-> js, raised |-> TRUE]
             ELSE IF ShouldSchedule(cache, u, rt, z, next_utc)
             THEN process_users(snapshot, i + 1,
                                CachePut(cache, u, <<rt, z, next_utc>>),
                                add_job(js, u, next_utc), t)
             ELSE process_users(snapshot, i + 1, cache, js, t)

schedule_all_reminders(snapshot, cache, js, t) ==
    process_users(snapshot, 1, EvictAbsent(cache, UserIds(snapshot)), js, t)

(***************************************************************************)
(* crypto_utils.py and its test script.  Strings and byte strings are      *)
(* sequences of characters; a salt is a sequence of byte values.           *)
(***************************************************************************)
SaltLen == 2

SaltBytes == {0, 171, 255}

\* os.urandom: any byte string of the length asked for.
Salts == [1 .. SaltLen -> SaltBytes]

Passphrases == {"my-secret-passphrase", "another-passphrase"}

HexDigits ==
    <<"0", "1", "2", "3", "4", "5", "6", "7", "8", "9",
      "a", "b", "c", "d", "e", "f">>

HexVal(c) == CHOOSE v \in 0 .. 15 : HexDigits[v + 1] = c

\* bytes.hex(): two lower-case digits per byte.
hex(salt) ==
    [i \in 1 .. 2 * Len(salt) |->
        IF i % 2 = 1 THEN HexDigits[(salt[(i + 1) \div 2] \div 16) + 1]
                     ELSE HexDigits[(salt[i \div 2] % 16) + 1]]

\* bytes.fromhex() of a string of digit pairs.
fromhex(h) ==
    [i \in 1 .. Len(h) \div 2 |->
        16 * HexVal(h[2 * i - 1]) + HexVal(h[2 * i])]

\* PBKDF2-HMAC-SHA256 as a function of the passphrase and the salt that
\* yields different keys for different arguments.
derive_key(passphrase, salt) == [passphrase |-> passphrase, salt |-> salt]

ExpenseEncryptor(passphrase, salt) ==
    [passphrase |-> passphrase,
     key |-> derive_key(passphrase, salt),
     salt |-> salt]

salt_hex(encryptor) == hex(encryptor.salt)

from_salt_hex(passphrase, h) == ExpenseEncryptor(passphrase, fromhex(h))

\* A value held by a dictionary of encrypted fields: a Fernet token made
\* with a key for a plaintext, or a string that was left as it was.  (The
\* timestamp and the IV of a token play no part in decrypt without a ttl.)
NoKey == derive_key("", << >>)

Token(key, data) == [token |-> TRUE, key |-> key, data |-> data]

Untouched(s) == [token |-> FALSE, key |-> NoKey, data |-> s]

fernet_encrypt(key, data) == Token(key, data)

\* Fernet.decrypt: the plaintext, or InvalidToken for anything that is not
\* a token made with this key.
fernet_decrypt(key, x) ==
    IF x.token /\ x.key = key
    THEN [ok |-> TRUE, data |-> x.data]
    ELSE [ok |-> FALSE, data |-> << >>]

\* Python's truth value of a string.
Truthy(x) == x.token \/ x.data # << >>

\* The amounts: a float (the double nearest to cents / 100), an int, or a
\* string (db.add_expense passes str(amount)).
FloatAmount(cents) == [kind |-> "float", num |-> cents, text |-> << >>]

IntAmount(n) == [kind |-> "int", num |-> n, text |-> << >>]

StrAmount(s) == [kind |-> "str", num |-> 0, text |-> s]

RECURSIVE Decimal(_)
Decimal(n) ==
    IF n < 10 THEN <<DigitChar(n)>>
    ELSE Append(Decimal(n \div 10), DigitChar(n % 10))

\* str(): a string is itself, an int is its digits, a float is its
\* shortest repr (at least one digit after the point).
py_str(v) ==
    CASE v.kind = "str" -> v.text
      [] v.kind = "int" -> Decimal(v.num)
      [] v.kind = "float" ->
            Decimal(v.num \div 100) \o <<".">> \o
            (IF v.num % 10 = 0 THEN <<DigitChar((v.num % 100) \div 10)>>
             ELSE <<DigitChar((v.num % 100) \div 10),
                    DigitChar(v.num % 10)>>)

AllDigits(s) == Len(s) >= 1 /\ \A i \in 1 .. Len(s) : s[i] \in Digits

RECURSIVE DecimalVal(_)
DecimalVal(s) ==
    IF Len(s) = 0 THEN 0
    ELSE 10 * DecimalVal(SubSeq(s, 1, Len(s) - 1)) + DigitVal(s[Len(s)])

\* float() of digits with at most two digits after an optional point;
\* ValueError for the other strings of the model.
py_float(s) ==
    LET dots == {i \in 1 .. Len(s) : s[i] = "."}
    IN  IF dots = {}
        THEN IF AllDigits(s)
             THEN [ok |-> TRUE, value |-> FloatAmount(100 * DecimalVal(s))]
             ELSE [ok |-> FALSE, value |-> FloatAmount(0)]
        ELSE LET p == CHOOSE i \in dots : TRUE
                 whole == SubSeq(s, 1, p - 1)
                 frac == SubSeq(s, p + 1, Len(s))
             IN  IF /\ Cardinality(dots) = 1
                    /\ AllDigits(whole)
                    /\ AllDigits(frac)
                    /\ Len(frac) <= 2
                 THEN [ok |-> TRUE,
                       value |-> FloatAmount(100 * DecimalVal(whole)
                                       + (IF Len(frac) = 1
                                          THEN 10 * DecimalVal(frac)
                                          ELSE DecimalVal(frac)))]
                 ELSE [ok |-> FALSE, value |-> FloatAmount(0)]

\* Python's == on two amounts: numbers compare by value, a string equals
\* only the same string.
PyEq(a, b) ==
    IF a.kind = "str" \/ b.kind = "str"
    THEN a.kind = b.kind /\ a.text = b.text
    ELSE (IF a.kind = "int" THEN 100 * a.num ELSE a.num)
             = (IF b.kind = "int" THEN 100 * b.num ELSE b.num)

\* Lines 54-87, for a dictionary that has the four keys.
encrypt_expense(encryptor, expense_data) ==
    [date |-> fernet_encrypt(encryptor.key, expense_data.date),
     amount |-> fernet_encrypt(encryptor.key, py_str(expense_data.amount)),
     category |-> fernet_encrypt(encryptor.key, expense_data.category),
     description |->
         IF expense_data.description # << >>
         THEN fernet_encrypt(encryptor.key, expense_data.description)
         ELSE Untouched(expense_data.description)]

\* One field of lines 105-123: left alone when falsy, else decrypted.
decrypt_field(encryptor, x) ==
    IF Truthy(x) THEN fernet_decrypt(encryptor.key, x)
    ELSE [ok |-> TRUE, data |-> x.data]

\* Lines 89-129: InvalidToken leaves decrypt itself, and the ValueError of
\* float() is turned into InvalidToken by line 127.
decrypt_expense(encryptor, encrypted_data) ==
    LET d == decrypt_field(encryptor, encrypted_data.date)
        a == decrypt_field(encryptor, encrypted_data.amount)
        c == decrypt_field(encryptor, encrypted_data.category)
        t == decrypt_field(encryptor, encrypted_data.description)
        f == IF a.ok /\ Truthy(encrypted_data.amount)
             THEN py_float(a.data)
             ELSE [ok |-> a.ok, value |-> StrAmount(a.data)]
    IN  IF d.ok /\ a.ok /\ f.ok /\ c.ok /\ t.ok
        THEN [raised |-> "none", date |-> d.data, amount |-> f.value,
              category |-> c.data, description |-> t.data]
        ELSE [raised |-> "InvalidToken", date |-> << >>,
              amount |-> FloatAmount(0), category |-> << >>,
              description |-> << >>]

\* The expenses the test is run with.
Dates == {<<"2", "0", "2", "3", "-", "0", "1", "-", "0", "1">>}

Amounts ==
    {FloatAmount(4250), FloatAmount(4200), FloatAmount(5), IntAmount(42),
     StrAmount(<<"4", "2", ".", "5">>)}

Categories == {<<"F", "o", "o", "d">>, <<"R", "e", "n", "t">>}

Descriptions == {<<"L", "u", "n", "c", "h">>, << >>}

Expenses ==
    [date : Dates, amount : Amounts, category : Categories,
     description : Descriptions]

NoEncryptor == ExpenseEncryptor("", << >>)

NoFields ==
    [date |-> Untouched(<< >>), amount |-> Untouched(<< >>),
     category |-> Untouched(<< >>), description |-> Untouched(<< >>)]

NoResult ==
    [raised |-> "none", date |-> << >>, amount |-> FloatAmount(0),
     category |-> << >>, description |-> << >>]

\* test_crypto.py lines 8-16.
InitCrypto ==
    /\ \E e \in Expenses, p \in Passphrases :
          crypto = [pc |-> "start", test_expense |-> e, passphrase |-> p,
                    encryptor |-> NoEncryptor, encrypted |-> NoFields,
                    encryptor2 |-> NoEncryptor, decrypted |-> NoResult]
    /\ now = 0
    /\ settings = << >>
    /\ changes = MaxChanges
    /\ reminder_cache = << >>
    /\ jobs = EmptyBag
    /\ goneFires = [u \in Users |-> 0]
    /\ last_pass = << >>
    /\ pc = "dead"
    /\ initial = FALSE
    /\ wake_at = 0
    /\ users = << >>
    /\ idx = 0
    /\ now_local = 0
    /\ next_reminder_utc = 0
    /\ scheduled_users = << >>
    /\ skipped_users = << >>
    /\ deliv = [u \in Users |-> NoDelivery]
    /\ loops = 0

RestUnchanged ==
    UNCHANGED <<now, storeVars, engineVars, loopVars, passVars, sendVars>>

\* Line 21: a new encryptor, with a salt of its own.
NewEncryptor ==
    /\ crypto.pc = "start"
    /\ \E salt \in Salts :
          crypto' = [crypto EXCEPT
                        !.pc = "ready",
                        !.encryptor = ExpenseEncryptor(crypto.passphrase,
                                                       salt)]
    /\ RestUnchanged

\* Line 25.
EncryptExpense ==
    /\ crypto.pc = "ready"
    /\ crypto' = [crypto EXCEPT
                     !.pc = "encrypted",
                     !.encrypted = encrypt_expense(crypto.encryptor,
                                                   crypto.test_expense)]
    /\ RestUnchanged

\* Line 30, with the passphrase of the run or with another one.
RebuildEncryptor ==
    /\ crypto.pc = "encrypted"
    /\ \E p \in Passphrases :
          crypto' = [crypto EXCEPT
                        !.pc = "rebuilt",
                        !.encryptor2 =
                            from_salt_hex(p, salt_hex(crypto.encryptor))]
    /\ RestUnchanged

\* Line 33.
DecryptExpense ==
    /\ crypto.pc = "rebuilt"
    /\ crypto' = [crypto EXCEPT
                     !.pc = "done",
                     !.decrypted = decrypt_expense(crypto.encryptor2,
                                                   crypto.encrypted)]
    /\ RestUnchanged

NextCrypto ==
    \/ NewEncryptor
    \/ EncryptExpense
    \/ RebuildEncryptor
    \/ DecryptExpense

SpecCrypto == InitCrypto /\ [][NextCrypto]_vars

InPass == pc \in {"resolve", "install", "cache", "summary"}

\* The tuple the pass is working on, while it is working on one.
CurUser == users[idx][1]
CurTime == users[idx][2]
CurZone == users[idx][3]

(***************************************************************************)
(* C1: the job table never holds more than one pending job for a user.     *)
(***************************************************************************)
C1_AtMostOnePendingJob == \A u \in Users : PendingCount(jobs, u) <= 1

\* A job has just been installed for a user whose previous job, for the
\* occurrence still recorded in the cache, had not come due.
C1_Witness ==
    /\ pc = "cache"
    /\ CurUser \in DOMAIN reminder_cache
    /\ reminder_cache[CurUser][3] > now
    /\ reminder_cache[CurUser][3] # next_reminder_utc
    /\ PendingCount(jobs, CurUser) = 1

(***************************************************************************)
(* C2: the occurrence resolved for a tuple is never before the 'now' read  *)
(* for it, and equals it only when that 'now' is a whole minute.           *)
(***************************************************************************)
C2_NeverInThePast ==
    pc \in {"install", "cache"} =>
        /\ next_reminder_utc >= now_local
        /\ (next_reminder_utc = now_local => now_local % Minute = 0)

\* A named zone in summer time, resolving to 'now' itself.
C2_Witness ==
    /\ pc = "install"
    /\ CurZone = TZ_GB
    /\ now_local >= DstStart
    /\ next_reminder_utc = now_local

(***************************************************************************)
(* C3: for a fixed offset the resolved instant shows the target wall time, *)
(* is at or after 'now' and less than 24 hours after it; 21:00 at +05:30   *)
(* resolved at 20:00 local is one hour ahead, resolved at 21:05 local it   *)
(* is tomorrow's 21:00.                                                    *)
(***************************************************************************)
\* Seconds-exact wall clock, in ticks since local midnight, shown at the
\* UTC instant t by a clock running offset_minutes ahead of UTC.
WallClock(t, offset_minutes) == (t + offset_minutes * Minute) % Day

C3_EarliestOccurrence ==
    (pc \in {"install", "cache"} /\ CurZone \notin NamedZones) =>
        LET off == parse_utc_offset(CurZone)
            shown == WallClock(now_local, off)
        IN  /\ WallClock(next_reminder_utc, off)
                  = CurTime[1] * Hour + CurTime[2] * Minute
            /\ next_reminder_utc >= now_local
            /\ next_reminder_utc - now_local < Day
            /\ (CurZone = TZ_IST /\ CurTime = <<21, 0>> /\ shown = 20 * Hour)
                  => next_reminder_utc = now_local + Hour
            /\ (CurZone = TZ_IST /\ CurTime = <<21, 0>>
                    /\ shown = 21 * Hour + 5 * Minute)
                  => next_reminder_utc = now_local + Day - 5 * Minute

\* 21:00 at +05:30 resolved at 21:05 local.
C3_Witness ==
    /\ pc = "install"
    /\ CurZone = TZ_IST
    /\ CurTime = <<21, 0>>
    /\ WallClock(now_local, 330) = 21 * Hour + 5 * Minute
    /\ next_reminder_utc = now_local + Day - 5 * Minute

(***************************************************************************)
(* C4: every user with a reminder in the settings store has exactly one    *)
(* pending job, in every reachable state.                                  *)
(***************************************************************************)
C4_ExactlyOneJobPerConfiguredUser ==
    \A u \in DOMAIN settings : PendingCount(jobs, u) = 1

\* The loop is between add_job and the cache write for u.
MidInstall(u) == pc = "cache" /\ CurUser = u

\* C4 as amended: at most one pending job per user, and exactly one while
\* the cache holds an occurrence of the user that has not come due (the
\* loop not being between add_job and the cache write for that user).
C4_OneJobWhileOccurrenceAhead ==
    \A u \in Users :
        /\ PendingCount(jobs, u) <= 1
        /\ (u \in DOMAIN reminder_cache /\ reminder_cache[u][3] > now
               /\ ~MidInstall(u))
              => PendingCount(jobs, u) = 1

C4_Witness ==
    \E u \in DOMAIN settings :
        /\ pc = "sleep"
        /\ u \in DOMAIN reminder_cache
        /\ reminder_cache[u][3] > now
        /\ PendingCount(jobs, u) = 1

(***************************************************************************)
(* C5: the tuple being processed gets a job and a new cache entry exactly  *)
(* when the user has no entry, or the cached wall time or timezone         *)
(* differs, or the resolved fire time is more than 300 s from the cached   *)
(* one; otherwise no job is installed and the cache is left as it was.     *)
(***************************************************************************)
C5_Warranted ==
    LET u == CurUser
        fire == Resolve(now, CurTime, CurZone)
    IN  \/ u \notin DOMAIN reminder_cache
        \/ reminder_cache[u][1] # CurTime
        \/ reminder_cache[u][2] # CurZone
        \/ fire - reminder_cache[u][3] > 300 * Second
        \/ reminder_cache[u][3] - fire > 300 * Second

\* The rescan worker takes a step.
WorkerStep == <<pc, idx>>' # <<pc, idx>>

C5_ResolveStep ==
    (pc = "resolve" /\ TzValid(CurZone) /\ WorkerStep) =>
        IF C5_Warranted
        THEN /\ pc' = "install"
             /\ next_reminder_utc' = Resolve(now, CurTime, CurZone)
        ELSE /\ pc' \notin {"install", "cache"}
             /\ jobs' = jobs
             /\ reminder_cache' = reminder_cache
             /\ skipped_users' = Append(skipped_users, CurUser)

C5_InstallStep ==
    (pc = "install" /\ WorkerStep) =>
        /\ pc' = "cache"
        /\ Job(CurUser, next_reminder_utc) \in DOMAIN jobs'
        /\ PendingCount(jobs', CurUser) = 1

C5_CacheStep ==
    (pc = "cache" /\ WorkerStep) =>
        /\ CurUser \in DOMAIN reminder_cache'
        /\ reminder_cache'[CurUser] = <<CurTime, CurZone, next_reminder_utc>>
        /\ scheduled_users' = Append(scheduled_users, CurUser)

InSuccession ==
    /\ pc = "summary"
    /\ Len(last_pass) = 2
    /\ users = last_pass[1]

Range(seq) == {seq[i] : i \in 1 .. Len(seq)}

C6_SecondPassInstallsNothing ==
    InSuccession =>
        /\ scheduled_users = << >>
        /\ reminder_cache = last_pass[2]

\* C6 as amended: the second pass installs a job only for the users whose
\* resolved occurrence has moved more than 300 s from the one the first
\* pass left in the cache (or for whom it left none), and leaves the entry
\* of every other user as it was.
C6_SecondPassInstallsOnlyMoved ==
    InSuccession =>
        \A u \in UserIds(users) :
            /\ u \in DOMAIN reminder_cache
            /\ IF u \in Range(scheduled_users)
               THEN \/ u \notin DOMAIN last_pass[2]
                    \/ Abs(reminder_cache[u][3] - last_pass[2][u][3])
                         > 300 * Second
               ELSE /\ u \in DOMAIN last_pass[2]
                    /\ reminder_cache[u] = last_pass[2][u]

\* A second pass that skipped two users and installed nothing.
C6_Witness ==
    /\ InSuccession
    /\ Len(skipped_users) = 2
    /\ scheduled_users = << >>
    /\ reminder_cache = last_pass[2]

(***************************************************************************)
(* C7: when the snapshot of a pass reports for a user a wall time or       *)
(* timezone other than the cached one, that pass installs the user's job   *)
(* and the cache then holds the new configuration: no pass ends with a     *)
(* cache entry that still holds another configuration than the snapshot's  *)
(* (valid) one.                                                            *)
(***************************************************************************)
StaleAfterPass(i) ==
    LET u == users[i][1]
    IN  /\ TzValid(users[i][3])
        /\ u \in DOMAIN reminder_cache'
        /\ <<reminder_cache'[u][1], reminder_cache'[u][2]>>
              # <<users[i][2], users[i][3]>>

C7_ChangePropagates ==
    [][(InPass /\ ~InPass') => \A i \in 1 .. Len(users) : ~StaleAfterPass(i)]_vars

(***************************************************************************)
(* C8: while a pass runs, no user missing from its snapshot has a cache    *)
(* entry, and the clean-up at the start of the pass removes no entry of a  *)
(* user of the snapshot.                                                   *)
(***************************************************************************)
C8_AbsentEvicted == InPass => DOMAIN reminder_cache \subseteq UserIds(users)

C8_PresentKept ==
    (~InPass /\ InPass') =>
        \A u \in (DOMAIN reminder_cache) \cap UserIds(users') :
            u \in DOMAIN reminder_cache'
              /\ reminder_cache'[u] = reminder_cache[u]

C8_Eviction == [](C8_AbsentEvicted) /\ [][C8_PresentKept]_vars

\* A pass is running whose snapshot lacks a user with a job still pending
\* (so scheduled, and cached, by an earlier pass), next to a user whose
\* entry stayed.
C8_Witness ==
    /\ pc = "resolve"
    /\ \E u \in Users \ UserIds(users) :
          PendingCount(jobs, u) = 1 /\ u \notin DOMAIN reminder_cache
    /\ \E v \in UserIds(users) : v \in DOMAIN reminder_cache

(***************************************************************************)
(* C9: a firing takes exactly the fired job off the table and adds none;   *)
(* a job appears in the table only by the add_job of a rescan pass.        *)
(***************************************************************************)
C9_FiringRemoves ==
    FireJob =>
        /\ BagCardinality(jobs') = BagCardinality(jobs) - 1
        /\ \A j \in DOMAIN jobs' : j \in DOMAIN jobs /\ jobs'[j] <= jobs[j]

C9_OnlyPassInstalls ==
    (\E j \in DOMAIN jobs' : j \notin DOMAIN jobs \/ jobs'[j] > jobs[j])
        => (pc = "install" /\ pc' = "cache")

C9_OneShot == [][C9_FiringRemoves /\ C9_OnlyPassInstalls]_vars

\* A user's job has fired and no pass has rescheduled yet.
C9_Witness ==
    \E u \in DOMAIN reminder_cache :
        /\ pc = "sleep"
        /\ reminder_cache[u][3] <= now
        /\ PendingCount(jobs, u) = 0

(***************************************************************************)
(* C10: after a user's configuration has left the settings store, at most  *)
(* one job fires for that user.                                            *)
(***************************************************************************)
C10_AtMostOneMoreDelivery == \A u \in Users : goneFires[u] <= 1

(***************************************************************************)
(* C11: a failed delivery never leaves send_reminder as an exception and   *)
(* is not retried: a firing makes at most one send attempt, and no step of *)
(* a delivery, failed or not, touches the job table, the cache, the        *)
(* settings or the rescan loop.                                            *)
(***************************************************************************)
C11_OneAttemptNoEscape ==
    \A u \in Users : deliv[u].attempts <= 1 /\ ~deliv[u].raised

C11_DeliveryStep ==
    (\E u \in Users : /\ deliv[u].pc \in {"start", "send", "finally"}
                       /\ deliv'[u] # deliv[u]) =>
        UNCHANGED <<jobs, reminder_cache, storeVars, loopVars, passVars>>

C11_FailureContained == [](C11_OneAttemptNoEscape) /\ [][C11_DeliveryStep]_vars

\* A delivery that failed at send_message and has returned.
C11_Witness ==
    \E u \in Users :
        /\ deliv[u].pc = "done"
        /\ deliv[u].result = "failed"
        /\ deliv[u].attempts = 1
        /\ PendingCount(jobs, u) = 0

(***************************************************************************)
(* C12: deliveries running at the same time hold different event loops,    *)
(* a failing delivery changes nothing of another delivery, and a delivery  *)
(* that has reached send_message can succeed whatever became of the        *)
(* others.                                                                 *)
(***************************************************************************)
C12_OwnEventLoop ==
    \A u, v \in Users :
        (u # v /\ deliv[u].loop # 0 /\ deliv[v].loop # 0)
            => deliv[u].loop # deliv[v].loop

C12_CanSucceed ==
    \A v \in Users : deliv[v].pc = "send" => ENABLED SendMessage(v, TRUE)

C12_FailureStep ==
    \A a \in Users :
        (deliv[a].result = "none" /\ deliv'[a].result \in {"failed", "loop_error"})
            => \A b \in Users \ {a} : deliv'[b] = deliv[b]

C13_SkipStep ==
    (pc = "resolve" /\ ~TzValid(CurZone) /\ WorkerStep) =>
        /\ users' = users
        /\ pc' = (IF idx < Len(users) THEN "resolve" ELSE "summary")
        /\ idx' = (IF idx < Len(users) THEN idx + 1 ELSE 0)
        /\ jobs' = jobs
        /\ reminder_cache' = reminder_cache

C13_SkipsOnlyMalformed == [][C13_SkipStep]_vars

(***************************************************************************)
(* C14: no exception raised inside a pass ends the background worker, in   *)
(* the start-up pass no more than in a periodic one.                       *)
(***************************************************************************)
C14_WorkerNeverDies == pc # "dead"

(***************************************************************************)
(* C15: when the back-off after a failed periodic pass is over, the pass   *)
(* is retried at once, with no further sleep of a rescan interval.         *)
(***************************************************************************)
C15_BackoffStep ==
    (pc = "backoff" /\ pc' # "backoff") =>
        \/ pc' \in {"resolve", "summary"}
        \/ pc' = "sleep" /\ wake_at' <= now'

C15_RetryRightAfterBackoff == [][C15_BackoffStep]_vars

(***************************************************************************)
(* C16: a user of the snapshot whose cache entry has been removed gets the *)
(* job installed and the entry written by that pass, whatever the          *)
(* configuration: the tuple is never skipped, and no pass ends with a      *)
(* valid user of its snapshot still holding a pending job but no entry,    *)
(* unless it processed that user (and the entry was evicted afterwards).   *)
(***************************************************************************)
\* u's entry has been removed since u's pending job was installed.
Evicted(u) == PendingCount(jobs, u) = 1 /\ u \notin DOMAIN reminder_cache

C16_NoEntryStep ==
    (pc = "resolve" /\ TzValid(CurZone) /\ WorkerStep
        /\ CurUser \notin DOMAIN reminder_cache)
        => (pc' = "install" /\ CurUser \notin Range(scheduled_users))

C16_PassEnd ==
    (InPass /\ ~InPass') =>
        \A i \in 1 .. Len(users) :
            (TzValid(users[i][3]) /\ Evicted(users[i][1]))
                => users[i][1] \in Range(scheduled_users) \cup Range(skipped_users)

C16_EvictedUserRescheduled == [][C16_NoEntryStep /\ C16_PassEnd]_vars

(***************************************************************************)
(* C17: once the settings flow has committed a user's new configuration    *)
(* and evicted the cache entry, the pending job shows the new wall time    *)
(* before the next periodic pass starts, and no job fires for that user at *)
(* another wall time.                                                      *)
(***************************************************************************)
\* The job j fires at the wall time of the configuration c.
Reflects(j, c) ==
    TzValid(c.tz) =>
        WallClock(j.run_date, UtcOffset(c.tz, j.run_date))
            = c.time[1] * Hour + c.time[2] * Minute

\* The users whose configuration is committed and whose entry is evicted
\* (taken while the worker sleeps, when only an eviction leaves a
\* configured user with a job and no entry).
Committed == (DOMAIN settings) \ (DOMAIN reminder_cache)

C17_PassStart ==
    (pc = "sleep" /\ pc' \in {"resolve", "summary"}) =>
        \A u \in Committed :
            \A j \in JobsOf(jobs, u) : Reflects(j, settings[u])

C17_Firing ==
    (FireJob /\ pc = "sleep") =>
        \A u \in Committed :
            \A j \in JobsOf(jobs, u) :
                j \notin DOMAIN jobs' => Reflects(j, settings[u])

C17_ChangeTakesEffectAtOnce == [][C17_PassStart /\ C17_Firing]_vars

(***************************************************************************)
(* C18: parse_utc_offset maps sign, two-digit hours, colon, two-digit      *)
(* minutes to sign x (60 x hours + minutes): "+05:30" gives 330 and        *)
(* "-04:00" gives -240; the zone built from it keeps that offset at every  *)
(* instant.                                                                *)
(***************************************************************************)
TwoDigits(n) == <<DigitChar(n \div 10), DigitChar(n % 10)>>

\* The numbers below 100 as they are written with two digits.
Numerals == [n \in 0 .. 99 |-> TwoDigits(n)]

\* z is a sign, a two-digit numeral, a colon and a two-digit numeral.
ExactForm(z) ==
    /\ Len(z) = 6
    /\ z[1] \in {"+", "-"}
    /\ z[4] = ":"
    /\ \E h \in 0 .. 99 : Numerals[h] = <<z[2], z[3]>>
    /\ \E m \in 0 .. 99 : Numerals[m] = <<z[5], z[6]>>

\* The signed minute count that the specifier z, of the exact form, spells.
Spelled(z) ==
    LET h == CHOOSE n \in 0 .. 99 : Numerals[n] = <<z[2], z[3]>>
        m == CHOOSE n \in 0 .. 99 : Numerals[n] = <<z[5], z[6]>>
    IN  IF z[1] = "-" THEN 0 - (60 * h + m) ELSE 60 * h + m

\* The specifier written from a sign and two numbers below 100.
OffsetString(sign, h, m) == <<sign>> \o Numerals[h] \o <<":">> \o Numerals[m]

\* Every specifier of the form, parsed.
C18_EveryString ==
    \A h \in 0 .. 99, m \in 0 .. 99 :
        /\ parse_utc_offset(OffsetString("+", h, m)) = 60 * h + m
        /\ parse_utc_offset(OffsetString("-", h, m)) = 0 - (60 * h + m)

C18_ParsedOffset ==
    (InPass /\ idx > 0 /\ ExactForm(CurZone)) =>
        /\ C18_EveryString
        /\ parse_utc_offset(CurZone) = Spelled(CurZone)
        /\ parse_utc_offset(TZ_IST) = 330
        /\ parse_utc_offset(TZ_EDT) = 0 - 240
        /\ TzValid(CurZone) =>
              \A t \in {now, now + Day, DstStart - 1, DstStart} :
                  UtcOffset(CurZone, t) = Spelled(CurZone)
        /\ pc \in {"install", "cache"} =>
              WallClock(next_reminder_utc, Spelled(CurZone))
                  = CurTime[1] * Hour + CurTime[2] * Minute

\* A tuple with "-04:00" has been resolved four hours behind UTC.
C18_Witness ==
    /\ pc = "install"
    /\ CurZone = TZ_EDT
    /\ WallClock(next_reminder_utc, 0 - 240)
          = CurTime[1] * Hour + CurTime[2] * Minute

(***************************************************************************)
(* C19: a specifier that is no known zone name and not exactly sign, two   *)
(* digits, colon, two digits is rejected with an error: the step raises,   *)
(* no job is installed and no cache entry is written for that user.        *)
(***************************************************************************)
Malformed(z) == z \notin NamedZones /\ ~ExactForm(z)

C19_RejectStep ==
    (pc = "resolve" /\ Malformed(CurZone) /\ WorkerStep) =>
        /\ pc' \in {"dead", "backoff"}
        /\ jobs' = jobs
        /\ reminder_cache' = reminder_cache

MinuteField(z) == 10 * DigitVal(z[5]) + DigitVal(z[6])

C20_RejectStep ==
    (pc = "resolve" /\ WorkerStep /\ ExactForm(CurZone)
        /\ MinuteField(CurZone) > 59)
        => pc' \in {"dead", "backoff"}

C20_MinuteFieldInRange == [][C20_RejectStep]_vars

\* ---------------------------------------------------------------------------
\* C21: for a named zone with daylight-saving rules, the instant resolved for
\* a tuple is the target hour:minute on that zone's wall clock at that
\* instant, also when the zone's offset at the resolved instant differs from
\* its offset at the moment the pass read the clock.
\* ---------------------------------------------------------------------------
C21_NamedZoneWallClock ==
    (pc \in {"install", "cache"} /\ CurZone \in NamedZones)
        => WallClock(next_reminder_utc,
                     NamedOffset(CurZone, next_reminder_utc))
               = CurTime[1] * Hour + CurTime[2] * Minute

\* ---------------------------------------------------------------------------
\* C22: the change cache has one writer.  Every step that inserts, updates or
\* deletes a cache entry is a step of the rescan loop's thread; no other
\* thread or collaborator changes the cache.
\* ---------------------------------------------------------------------------
C22_SingleWriter == [][reminder_cache' # reminder_cache => WorkerStep]_vars

\* ---------------------------------------------------------------------------
\* C23: within one pass the outcome does not depend on the order of the
\* tuples.  Whenever a pass can start, any two orders of the same snapshot
\* leave the same job table and the same cache at the end of the pass.
\* ---------------------------------------------------------------------------
PassEffect(snapshot) ==
    LET r == schedule_all_reminders(snapshot, reminder_cache, jobs, now)
    IN  <<r.jobs, r.cache>>

C23_OrderIrrelevant ==
    PassDue => \A s1, s2 \in Snapshots(settings) :
                   PassEffect(s1) = PassEffect(s2)

\* ---------------------------------------------------------------------------
\* C24: encryption round-trips.  When an expense with a non-empty
\* description has been encrypted and then decrypted by an encryptor rebuilt
\* from the same passphrase and the first encryptor's salt, decryption
\* succeeds and returns the original date, amount, category and description.
\* ---------------------------------------------------------------------------
C24_SameSecret ==
    /\ crypto.pc = "done"
    /\ crypto.encryptor2.passphrase = crypto.passphrase
    /\ crypto.test_expense.description # << >>

C24_RoundTrip ==
    C24_SameSecret =>
        /\ crypto.decrypted.raised = "none"
        /\ crypto.decrypted.date = crypto.test_expense.date
        /\ PyEq(crypto.decrypted.amount, crypto.test_expense.amount)
        /\ crypto.decrypted.category = crypto.test_expense.category
        /\ crypto.decrypted.description = crypto.test_expense.description

\* ---------------------------------------------------------------------------
\* C25: a delivery in flight never blocks the rescan loop.  While deliveries
\* are in flight (about to start, in the network call, or closing their
\* loop), a due pass can start and every step of a pass in progress can be
\* taken: reading the snapshot, deciding, installing or replacing a job,
\* writing the cache, finishing.
\* ---------------------------------------------------------------------------
C25_InFlight(u) == deliv[u].pc \in {"start", "send", "finally"}

C25_PassNeverBlocked ==
    (\E u \in Users : C25_InFlight(u)) =>
        /\ PassDue => ENABLED BeginPass
        /\ pc = "resolve" => ENABLED ResolveUser
        /\ pc = "install" => ENABLED InstallJob
        /\ pc = "cache" => ENABLED UpdateCache
        /\ pc = "summary" => ENABLED Summary

\* Both deliveries are still in their network call and a whole pass has
\* replaced both users' jobs and gone back to sleep.
C25_Witness ==
    /\ \A u \in Users : deliv[u].pc = "send"
    /\ \A u \in Users : Job(u, SendDue + Day) \in DOMAIN jobs
    /\ pc = "sleep"
    /\ wake_at > now

\* ---------------------------------------------------------------------------
\* C26: cleanup_cache_for_user(u) changes nothing except u's cache entry.
\* A clean-up step leaves every other user's entry, every pending job (u's
\* own included) and every delivery in flight as they were, and changes
\* nothing at all when u has no entry.
\* ---------------------------------------------------------------------------
C26_OnlyEntryOf(u) ==
    /\ u \notin DOMAIN reminder_cache'
    /\ \A v \in Users \ {u} :
          /\ v \in DOMAIN reminder_cache' <=> v \in DOMAIN reminder_cache
          /\ v \in DOMAIN reminder_cache
                => reminder_cache'[v] = reminder_cache[v]
    /\ u \notin DOMAIN reminder_cache => reminder_cache' = reminder_cache

C26_CleanupFrame ==
    [][Cleanup =>
          /\ \E u \in Users : C26_OnlyEntryOf(u)
          /\ jobs' = jobs
          /\ deliv' = deliv
          /\ loops' = loops
          /\ settings' = settings
          /\ <<pc, users, idx, next_reminder_utc>>'
                = <<pc, users, idx, next_reminder_utc>>]_vars

\* User 1's entry has been evicted from outside while user 1's job is
\* pending and user 2's delivery is in its network call.
C26_Witness ==
    /\ DOMAIN reminder_cache = Users \ {1}
    /\ PendingCount(jobs, 1) = 1
    /\ deliv[2].pc = "send"

\* ---------------------------------------------------------------------------
\* C27: whenever the rescan loop is not between installing a user's job and
\* writing that user's cache entry, a user who has both a cache entry and a
\* pending job has the job at the fire time stored in the entry.
\* ---------------------------------------------------------------------------
C27_JobMatchesCache ==
    \A u \in Users :
        (u \in DOMAIN reminder_cache /\ ~MidInstall(u))
            => \A j \in JobsOf(jobs, u) : j.run_date = reminder_cache[u][3]

\* After store writes, an eviction or firings: one user has a job and an
\* entry that was written for a changed configuration, the other user's
\* job has fired and left its entry behind.
C27_Witness ==
    \E u, v \in Users :
        /\ changes >= 1
        /\ pc = "sleep"
        /\ u \in DOMAIN reminder_cache /\ PendingCount(jobs, u) = 1
        /\ v \in DOMAIN reminder_cache /\ PendingCount(jobs, v) = 0
        /\ reminder_cache[v][3] < now

\* ---------------------------------------------------------------------------
\* C28: a user's cache entry is written only after the job installation for
\* that user has succeeded.  A step that writes an entry is taken with the
\* job for the written fire time in the table; and when installing the job
\* raises, the cache and the job table stay as they were, so that a later
\* pass over the same tuple decides to schedule the user again.
\* ---------------------------------------------------------------------------
C28_LaterPasses ==
    {now + (BackoffSeconds + RescanSeconds) * Second, now + Day,
     now + Day + RescanSeconds * Second}

C28_WriteStep ==
    \A u \in DOMAIN reminder_cache' :
        (u \notin DOMAIN reminder_cache
            \/ reminder_cache'[u] # reminder_cache[u])
            => /\ pc = "cache"
               /\ Job(u, reminder_cache'[u][3]) \in DOMAIN jobs

C28_RaiseStep ==
    (pc = "install" /\ pc' \in {"dead", "backoff"}) =>
        /\ reminder_cache' = reminder_cache
        /\ jobs' = jobs
        /\ \A t \in C28_LaterPasses :
              ShouldSchedule(reminder_cache', CurUser, CurTime, CurZone,
                             Resolve(t, CurTime, CurZone))

C28_CacheAfterInstall == [][C28_WriteStep /\ C28_RaiseStep]_vars

\* add_job has raised for a user whose entry holds yesterday's occurrence:
\* job and entry are the old ones.
C28_Witness ==
    /\ pc \in {"dead", "backoff"}
    /\ 1 \in DOMAIN reminder_cache
    /\ reminder_cache[1][1] = settings[1].time
    /\ reminder_cache[1][2] = settings[1].tz
    /\ TzValid(settings[1].tz)
    /\ Job(1, reminder_cache[1][3]) \in DOMAIN jobs

\* ---------------------------------------------------------------------------
\* C29: if the snapshot read fails at the start of a pass, the pass changes
\* nothing: the step that takes the worker from a due pass straight to its
\* exception handling leaves the cache and the job table as they were.
\* ---------------------------------------------------------------------------
C29_FailedRead == PassDue /\ pc' \in {"dead", "backoff"}

C29_FailedReadChangesNothing ==
    [][C29_FailedRead =>
          /\ reminder_cache' = reminder_cache
          /\ jobs' = jobs
          /\ settings' = settings]_vars

\* The read has failed in a periodic pass that would have evicted a user:
\* the user has left the store, the entry and the job are still there.
C29_Witness ==
    /\ pc = "backoff"
    /\ changes <= 1
    /\ \A u \in DOMAIN settings : TzValid(settings[u].tz)
    /\ \E u \in (DOMAIN reminder_cache) \ (DOMAIN settings) :
          PendingCount(jobs, u) = 1

\* ---------------------------------------------------------------------------
\* C30: for a user whose fixed-offset configuration is the one the cache
\* entry was written for, the reminder recurs daily.  A pass that reads the
\* clock no later than the cached occurrence T skips the user and leaves
\* the job alone; a pass that reads it after T (the job for T has fired)
\* decides to install, for a later occurrence than T, which is T + 24 h
\* when no more than a day has gone by since T; and the install stores
\* exactly one job, for that occurrence.  So the same occurrence is never
\* installed twice and each occurrence gets its job as long as a pass
\* completes between consecutive occurrences.
\* ---------------------------------------------------------------------------
C30_Steady ==
    /\ pc = "resolve"
    /\ CurZone \notin NamedZones
    /\ TzValid(CurZone)
    /\ CurUser \in DOMAIN reminder_cache
    /\ reminder_cache[CurUser][1] = CurTime
    /\ reminder_cache[CurUser][2] = CurZone

C30_ResolveStep ==
    (C30_Steady /\ WorkerStep) =>
        LET T == reminder_cache[CurUser][3]
        IN  IF now <= T
            THEN /\ pc' # "install"
                 /\ jobs' = jobs
                 /\ reminder_cache' = reminder_cache
            ELSE /\ pc' = "install"
                 /\ next_reminder_utc' > T
                 /\ now <= T + Day => next_reminder_utc' = T + Day

C30_InstallStep ==
    (pc = "install" /\ WorkerStep) =>
        /\ JobsOf(jobs', CurUser) = {Job(CurUser, next_reminder_utc)}
        /\ PendingCount(jobs', CurUser) = 1

C30_DailyRecurrence == [][C30_ResolveStep /\ C30_InstallStep]_vars

\* C30 as it is worded: the first pass that completes after the job for T
\* has fired has installed the next job.  With no store write and no
\* outside eviction so far, a pass never reaches its end with a user of
\* its snapshot (fixed offset, entry written for the same configuration)
\* whose cached occurrence has fired and who has no pending job.
C30_FiredAndLeftOut(i) ==
    LET u == users[i][1]
    IN  /\ users[i][3] \notin NamedZones
        /\ TzValid(users[i][3])
        /\ u \in DOMAIN reminder_cache
        /\ reminder_cache[u][1] = users[i][2]
        /\ reminder_cache[u][2] = users[i][3]
        /\ reminder_cache[u][3] <= now
        /\ PendingCount(jobs, u) = 0

C30_CompletedPassReinstalls ==
    (pc = "summary" /\ changes = 0) =>
        \A i \in 1 .. Len(users) : ~C30_FiredAndLeftOut(i)

\* No store write and no outside eviction has happened; the entry of the
\* user in hand was written for an occurrence that has passed, its job has
\* fired, and the pass is about to install the occurrence 24 h later.
C30_Witness ==
    /\ pc = "install"
    /\ changes = 0
    /\ CurZone \notin NamedZones
    /\ CurUser \in DOMAIN reminder_cache
    /\ reminder_cache[CurUser][1] = CurTime
    /\ reminder_cache[CurUser][2] = CurZone
    /\ reminder_cache[CurUser][3] < now
    /\ PendingCount(jobs, CurUser) = 0
    /\ next_reminder_utc = reminder_cache[CurUser][3] + Day

TypeOK ==
    /\ now \in 0 .. Horizon
    /\ pc \in {"start", "resolve", "install", "cache", "summary", "sleep",
               "backoff", "dead"}
    /\ DOMAIN reminder_cache \subseteq Users
    /\ DOMAIN settings \subseteq Users
    /\ IsABag(jobs)
    /\ \A u \in Users :
          deliv[u].pc \in {"idle", "start", "send", "finally", "done"}
    /\ loops \in 0 .. NumUsers
    /\ crypto.pc \in {"off", "start", "ready", "encrypted", "rebuilt", "done"}

=============================================================================
